---- MODULE Spec2Model ----
(***************************************************************************)
(* Memory-management core of the Panix kernel: the bucket heap of          *)
(* src/kernel/mem/heap.cpp and the page-table manager of                   *)
(* src/kernel/mem/paging.cpp.                                              *)
(*                                                                         *)
(* Pointers are byte addresses (naturals); NULL is 0.  size_t arithmetic   *)
(* is done modulo 2^WordBits.  A chunk header lives at its address in      *)
(* `chunks`; a scrubbed header (memset 0xDD) leaves the domain of `chunks`.*)
(* A DList pointer is represented by the address of the chunk that holds   *)
(* the DList member, which is what CONTAINER() recovers in the source.     *)
(***************************************************************************)
EXTENDS Integers, FiniteSets, Sequences

(***************************************************************************)
(* Bounds of the model                                                     *)
(***************************************************************************)
WordBits == 16          \* width of size_t in the model
HeapSize == 128         \* argument of px_heap_init
MaxRequest == 80        \* largest "ordinary" malloc request tried
MaxHeapCalls == 5       \* number of malloc/free calls in one behaviour

PageTableEntries == 3   \* ARCH_PAGE_TABLE_ENTRIES = ARCH_PAGE_DIR_ENTRIES (1024 on i386)
NumFrames == 5          \* physical frames covered by the frame bitmap
EarlyPages == 1         \* pages of the identity-mapped low memory (256 on i386)
KernelPages == 1        \* pages of the kernel image
MaxNewPages == 2        \* newPage/freePage sizes tried span 0..MaxNewPages whole pages
MaxPagingCalls == 4     \* number of paging calls in one behaviour
MaxMapCalls == 2        \* number of direct mapKernelPage calls among them
NumCallers == 2         \* flows of execution in the interleaved specification
MaxInterleavedCalls == 2 \* number of paging calls in one interleaved behaviour

ScenarioHeapSize == 4096 \* argument of px_heap_init in the allocate/free/allocate scenario
MaxScenarioUnits == 16  \* scenario requests are 8, 16, ..., 8 * MaxScenarioUnits bytes

MaxRecords == 2         \* records of the boot memory map
MaxRecordFrame == 2     \* boot records start at frames 0..MaxRecordFrame - 1

SizeMod == 2 ^ WordBits
SIZE_MAX == SizeMod - 1
NULL == 0

(***************************************************************************)
(* mem/heap.hpp (OSDev "LinkedListBucketHeap"), i386: 4-byte pointers      *)
(***************************************************************************)
NUM_SIZES == WordBits   \* one size class per bit of size_t (32 on i386)
ALIGN == 4
MIN_SIZE == 8           \* sizeof(DList)
HEADER_SIZE == 12       \* offsetof(px_heap_chunk_t, data)
SIZEOF_CHUNK == 20      \* sizeof(px_heap_chunk_t)

HeapBase == 4096        \* page-aligned address returned by px_get_new_page

ARCH_PAGE_SIZE == 4096

VARIABLES
    chunks,      \* memory: header address -> [all, used, free]
    free_chunk,  \* px_heap_chunk_t* free_chunk[NUM_SIZES]
    first,       \* low sentinel
    last,        \* high sentinel
    mem_free,
    mem_used,
    mem_meta,
    heapCall,    \* the last heap call: operation, argument, result, and
                 \* mem_free and the number of chunks when it was entered
    heapCalls,   \* number of heap calls made so far
    pageTables,  \* pageTables[pde][pte] = [present, frame]
    mappedPages, \* Bitset: the virtual page indices whose bit is set
    physical,    \* frame bitmap: the frame indices marked used
    pagingLock,  \* TRUE while the mutex "paging" is held
    invalidated, \* the pages whose address the last freePage call has passed
                 \* to Arch::Memory::pageInvalidate
    cpu,         \* "running", "panic" (fatal abort) or "spinning" (in Lock())
    allocs,      \* <<address, size>> of the newPage results not yet freed
    pagingCall,  \* the last paging call: operation, arguments, result, and
                 \* whether it repeats the call before it
    pagingCalls, \* number of paging calls made so far
    mapCalls,    \* number of direct mapKernelPage calls made so far
    pc,          \* interleaved callers: where each caller is in its call
    loc,         \* interleaved callers: the locals of each caller's call
    scn,         \* the allocate/free/allocate scenario: its step, the two
                 \* request sizes and the pointers A, B and C it got
    bootMap,     \* MemoryMap handed to init(): a sequence of sections
    bootStage    \* "boot" (before init()), "seeded" (initPhysical is done)
                 \* or "paging" (init() is done)

heapVars == <<chunks, free_chunk, first, last, mem_free, mem_used, mem_meta,
              heapCall, heapCalls>>

pagingVars == <<pageTables, mappedPages, physical, pagingLock, invalidated, cpu, allocs,
                pagingCall, pagingCalls, mapCalls, pc, loc>>

scenarioVars == <<scn>>

seedVars == <<bootMap, bootStage>>

vars == <<heapVars, pagingVars, scenarioVars, seedVars>>

(***************************************************************************)
(* size_t arithmetic                                                       *)
(***************************************************************************)
AddW(a, b) == (a + b) % SizeMod
SubW(a, b) == (a - b) % SizeMod
\* x & ~(ALIGN - 1)
AlignDown(x) == x - (x % ALIGN)

(***************************************************************************)
(* DList primitives; l is the member, "all" or "free"                      *)
(***************************************************************************)
dlist_init(m, l, d) == [m EXCEPT ![d][l] = [next |-> d, prev |-> d]]

dlist_insert_after(m, l, d1, d2) ==
    LET n1 == m[d1][l].next
        e2 == m[d2][l].prev
        m1 == [m EXCEPT ![d1][l].next = d2]
        m2 == [m1 EXCEPT ![d2][l].prev = d1]
        m3 == [m2 EXCEPT ![e2][l].next = n1]
    IN  [m3 EXCEPT ![n1][l].prev = e2]

dlist_insert_before(m, l, d1, d2) ==
    LET e1 == m[d1][l].prev
        e2 == m[d2][l].prev
        m1 == [m EXCEPT ![e1][l].next = d2]
        m2 == [m1 EXCEPT ![d2][l].prev = e1]
        m3 == [m2 EXCEPT ![e2][l].next = d1]
    IN  [m3 EXCEPT ![d1][l].prev = e2]

dlist_remove(m, l, d) ==
    LET m1 == [m EXCEPT ![m[d][l].prev][l].next = m[d][l].next]
        m2 == [m1 EXCEPT ![m1[d][l].next][l].prev = m1[d][l].prev]
    IN  [m2 EXCEPT ![d][l] = [next |-> d, prev |-> d]]

\* DLIST_PUSH(&free_chunk[n], d, free): result is <<memory, new head>>
dlist_push(m, l, head, d) ==
    IF head # NULL THEN <<dlist_insert_before(m, l, head, d), d>>
                   ELSE <<m, d>>

\* DLIST_POP(&free_chunk[n], free): result is <<memory, new head, popped>>
dlist_pop(m, l, head) ==
    LET d1 == head
        d2 == m[d1][l].next
    IN  <<dlist_remove(m, l, d1), IF d1 = d2 THEN NULL ELSE d2, d1>>

\* DLIST_REMOVE_FROM(&free_chunk[n], d, free): result is <<memory, new head>>
dlist_remove_from(m, l, head, d) ==
    IF head = d THEN LET r == dlist_pop(m, l, head) IN <<r[1], r[2]>>
                ELSE <<dlist_remove(m, l, d), head>>

(***************************************************************************)
(* heap.cpp helpers.  A heap state h is the record of the globals.         *)
(***************************************************************************)
px_memory_chunk_init(m, c) ==
    LET fresh == [all |-> [next |-> c, prev |-> c], used |-> 0,
                  free |-> [next |-> c, prev |-> c]]
    IN  [a \in (DOMAIN m) \cup {c} |-> IF a = c THEN fresh ELSE m[a]]

px_memory_chunk_size(m, c) == SubW(SubW(m[c].all.next, c), HEADER_SIZE)

RECURSIVE px_memory_chunk_slot(_)
px_memory_chunk_slot(size) ==
    IF size > 0 THEN px_memory_chunk_slot(size \div 2) + 1 ELSE -1

\* memset(c, 0xDD, sizeof(px_heap_chunk_t)): the header is gone
Scrub(m, c) == [a \in (DOMAIN m) \ {c} |-> m[a]]

px_remove_free(h, c) ==
    LET len == px_memory_chunk_size(h.chunks, c)
        n == px_memory_chunk_slot(len)
        r == dlist_remove_from(h.chunks, "free", h.free_chunk[n], c)
    IN  [h EXCEPT !.chunks = r[1],
                  !.free_chunk[n] = r[2],
                  !.mem_free = SubW(h.mem_free, SubW(len, HEADER_SIZE))]

\* px_push_free() that files the chunk one bucket too high
px_push_free_next_slot(h, c) ==
    LET len == px_memory_chunk_size(h.chunks, c)
        n == px_memory_chunk_slot(len) + 1
        r == dlist_push(h.chunks, "free", h.free_chunk[n], c)
    IN  [h EXCEPT !.chunks = r[1],
                  !.free_chunk[n] = r[2],
                  !.mem_free = AddW(h.mem_free, SubW(len, HEADER_SIZE))]

px_push_free(h, c) ==
    LET len == px_memory_chunk_size(h.chunks, c)
        n == px_memory_chunk_slot(len)
        r == dlist_push(h.chunks, "free", h.free_chunk[n], c)
    IN  [h EXCEPT !.chunks = r[1],
                  !.free_chunk[n] = r[2],
                  !.mem_free = AddW(h.mem_free, SubW(len, HEADER_SIZE))]

px_heap_init(mem, size) ==
    LET mem_start == AlignDown(mem + ALIGN - 1)
        mem_end == AlignDown(mem + size)
        f == mem_start
        second == f + SIZEOF_CHUNK
        l == mem_end - SIZEOF_CHUNK
        m0 == px_memory_chunk_init(
                px_memory_chunk_init(
                  px_memory_chunk_init(<<>>, f), second), l)
        m1 == dlist_insert_after(m0, "all", f, second)
        m2 == dlist_insert_after(m1, "all", second, l)
        m3 == [m2 EXCEPT ![f].used = 1, ![l].used = 1]
        len == px_memory_chunk_size(m3, second)
        n == px_memory_chunk_slot(len)
        r == dlist_push(m3, "free", NULL, second)
    IN  [chunks |-> r[1],
         free_chunk |-> [i \in 0..(NUM_SIZES - 1) |-> IF i = n THEN r[2] ELSE NULL],
         first |-> f,
         last |-> l,
         mem_free |-> SubW(len, HEADER_SIZE),
         mem_used |-> 0,
         mem_meta |-> SIZEOF_CHUNK * 2 + HEADER_SIZE]

\* a scan that starts one class too low
ScanBuckets_one_below(fc, n) ==
    LET full == {k \in (n - 1)..(NUM_SIZES - 1) : k >= 0 /\ fc[k] # NULL}
    IN  IF full = {} THEN NUM_SIZES ELSE CHOOSE k \in full : \A j \in full : k <= j

\* a scan that takes the lowest non-empty bucket, whatever the starting class
ScanBuckets_first_fit(fc, n) ==
    LET full == {k \in 0..(NUM_SIZES - 1) : fc[k] # NULL}
    IN  IF full = {} THEN NUM_SIZES ELSE CHOOSE k \in full : \A j \in full : k <= j

\* while(!free_chunk[n]) { ++n; if (n >= NUM_SIZES) return NULL; }
RECURSIVE ScanBuckets(_, _)
ScanBuckets(fc, n) ==
    IF fc[n] # NULL THEN n
    ELSE IF n + 1 >= NUM_SIZES THEN NUM_SIZES
    ELSE ScanBuckets(fc, n + 1)

\* the MIN_SIZE floor without the rounding to ALIGN
RoundRequest_no_align(size) == IF size < MIN_SIZE THEN MIN_SIZE ELSE size

\* the rounding without the MIN_SIZE floor
RoundRequest_no_floor(size) == AlignDown(AddW(size, ALIGN - 1))

\* size = (size + ALIGN - 1) & ~(ALIGN - 1); if (size < MIN_SIZE) size = MIN_SIZE
RoundRequest(size) ==
    LET s == AlignDown(AddW(size, ALIGN - 1))
    IN  IF s < MIN_SIZE THEN MIN_SIZE ELSE s

\* a malloc that never splits
SplitFits_never(size, size2) == FALSE

\* if (size + sizeof(px_heap_chunk_t) <= size2)
SplitFits(size, size2) == AddW(size, SIZEOF_CHUNK) <= size2

\* result: [h |-> heap state afterwards, ret |-> returned pointer]
malloc(h, size0) ==
    LET size == RoundRequest(size0)
        n0 == px_memory_chunk_slot(SubW(size, 1)) + 1
        n == IF n0 >= NUM_SIZES THEN NUM_SIZES ELSE ScanBuckets(h.free_chunk, n0)
    IN  IF n >= NUM_SIZES THEN [h |-> h, ret |-> NULL]
        ELSE
          LET p == dlist_pop(h.chunks, "free", h.free_chunk[n])
              chunk == p[3]
              h1 == [h EXCEPT !.chunks = p[1], !.free_chunk[n] = p[2]]
              size2 == px_memory_chunk_size(h1.chunks, chunk)
              split == SplitFits(size, size2)
              chunk2 == chunk + HEADER_SIZE + size
              mA == dlist_insert_after(px_memory_chunk_init(h1.chunks, chunk2),
                                       "all", chunk, chunk2)
              len == IF split THEN px_memory_chunk_size(mA, chunk2) ELSE 0
              n2 == px_memory_chunk_slot(len)
              r == dlist_push(mA, "free", h1.free_chunk[n2], chunk2)
              h2 == IF split
                    THEN [h1 EXCEPT !.chunks = r[1],
                                    !.free_chunk[n2] = r[2],
                                    !.mem_meta = AddW(h1.mem_meta, HEADER_SIZE),
                                    !.mem_free = AddW(h1.mem_free, SubW(len, HEADER_SIZE))]
                    ELSE h1
              h3 == [h2 EXCEPT !.chunks[chunk].used = 1,
                               !.mem_free = SubW(h2.mem_free, size2),
                               !.mem_used = AddW(h2.mem_used,
                                                 SubW(SubW(size2, len), HEADER_SIZE))]
          IN  [h |-> h3, ret |-> chunk + HEADER_SIZE]

\* free() that never merges the next chunk in
free_merge_next_never(h, chunk) == h

\* free() that merges the next chunk in without looking at its used flag
free_merge_next_unchecked(h, chunk) ==
    LET next == h.chunks[chunk].all.next
        h1 == px_remove_free(h, next)
    IN  [h1 EXCEPT !.chunks = Scrub(dlist_remove(h1.chunks, "all", next), next),
                   !.mem_meta = SubW(h1.mem_meta, HEADER_SIZE),
                   !.mem_free = AddW(h1.mem_free, HEADER_SIZE)]

\* free(), lines 223-230: if (next->used == 0) merge in next
free_merge_next(h, chunk) ==
    LET next == h.chunks[chunk].all.next
        h1 == px_remove_free(h, next)
    IN  IF h.chunks[next].used = 0
        THEN [h1 EXCEPT !.chunks = Scrub(dlist_remove(h1.chunks, "all", next), next),
                        !.mem_meta = SubW(h1.mem_meta, HEADER_SIZE),
                        !.mem_free = AddW(h1.mem_free, HEADER_SIZE)]
        ELSE h

\* free() that merges into an unused prev but otherwise leaves the chunk
\* out of the buckets
free_merge_prev_no_push(h, chunk) ==
    LET prev == h.chunks[chunk].all.prev
        hp1 == px_remove_free(h, prev)
        hp2 == [hp1 EXCEPT !.chunks = Scrub(dlist_remove(hp1.chunks, "all", chunk), chunk)]
        hp3 == px_push_free(hp2, prev)
    IN  IF h.chunks[prev].used = 0
        THEN [hp3 EXCEPT !.mem_meta = SubW(hp3.mem_meta, HEADER_SIZE),
                         !.mem_free = AddW(hp3.mem_free, HEADER_SIZE)]
        ELSE [h EXCEPT !.chunks = dlist_init([h.chunks EXCEPT ![chunk].used = 0],
                                             "free", chunk)]

\* free() that never merges into prev
free_merge_prev_never(h, chunk) ==
    px_push_free([h EXCEPT !.chunks = dlist_init([h.chunks EXCEPT ![chunk].used = 0],
                                                 "free", chunk)], chunk)

\* free(), lines 231-244: merge to prev, or make chunk as free
free_merge_prev(h, chunk) ==
    LET prev == h.chunks[chunk].all.prev
        hp1 == px_remove_free(h, prev)
        hp2 == [hp1 EXCEPT !.chunks = Scrub(dlist_remove(hp1.chunks, "all", chunk), chunk)]
        hp3 == px_push_free(hp2, prev)
        hc1 == [h EXCEPT !.chunks = dlist_init([h.chunks EXCEPT ![chunk].used = 0],
                                               "free", chunk)]
    IN  IF h.chunks[prev].used = 0
        THEN [hp3 EXCEPT !.mem_meta = SubW(hp3.mem_meta, HEADER_SIZE),
                         !.mem_free = AddW(hp3.mem_free, HEADER_SIZE)]
        ELSE px_push_free(hc1, chunk)

free(h, mem) ==
    LET chunk == mem - HEADER_SIZE
        h0 == [h EXCEPT !.mem_used = SubW(h.mem_used,
                                          px_memory_chunk_size(h.chunks, chunk))]
    IN  free_merge_prev(free_merge_next(h0, chunk), chunk)

(***************************************************************************)
(* Heap actions                                                            *)
(***************************************************************************)
HeapState == [chunks |-> chunks, free_chunk |-> free_chunk, first |-> first,
              last |-> last, mem_free |-> mem_free, mem_used |-> mem_used,
              mem_meta |-> mem_meta]

SetHeap(h) ==
    /\ chunks' = h.chunks
    /\ free_chunk' = h.free_chunk
    /\ first' = h.first
    /\ last' = h.last
    /\ mem_free' = h.mem_free
    /\ mem_used' = h.mem_used
    /\ mem_meta' = h.mem_meta

\* request sizes tried: small ones around the alignment, and the top of size_t
RequestSizes ==
    {n \in 0..MaxRequest : n % ALIGN \in {0, 1}} \cup {SizeMod - k : k \in 1..(ALIGN + 1)}

\* pointers currently allocated: payloads of used chunks other than the sentinels
Allocated == {c + HEADER_SIZE : c \in {a \in DOMAIN chunks :
                  chunks[a].used = 1 /\ a # first /\ a # last}}

\* px_heap_init(size) on the region that px_get_new_page returned
HeapInitOf(size) ==
    /\ LET h == px_heap_init(HeapBase, size)
       IN  /\ chunks = h.chunks
           /\ free_chunk = h.free_chunk
           /\ first = h.first
           /\ last = h.last
           /\ mem_free = h.mem_free
           /\ mem_used = h.mem_used
           /\ mem_meta = h.mem_meta
    /\ heapCall = [op |-> "init", arg |-> size, ret |-> NULL,
                   pre_free |-> 0, pre_count |-> 0]
    /\ heapCalls = 0

HeapInit == HeapInitOf(HeapSize)

\* the call malloc(size) and the record of it
MallocCall(size) ==
    LET r == malloc(HeapState, size)
    IN  /\ SetHeap(r.h)
        /\ heapCall' = [op |-> "malloc", arg |-> size, ret |-> r.ret,
                        pre_free |-> mem_free,
                        pre_count |-> Cardinality(DOMAIN chunks)]

\* the call free(mem) and the record of it
FreeCall(mem) ==
    /\ SetHeap(free(HeapState, mem))
    /\ heapCall' = [op |-> "free", arg |-> mem, ret |-> NULL,
                    pre_free |-> mem_free,
                    pre_count |-> Cardinality(DOMAIN chunks)]

Malloc ==
    /\ heapCalls < MaxHeapCalls
    /\ \E size \in RequestSizes : MallocCall(size)
    /\ heapCalls' = heapCalls + 1
    /\ UNCHANGED <<pagingVars, scenarioVars, seedVars>>

Free ==
    /\ heapCalls < MaxHeapCalls
    /\ \E mem \in Allocated : FreeCall(mem)
    /\ heapCalls' = heapCalls + 1
    /\ UNCHANGED <<pagingVars, scenarioVars, seedVars>>

(***************************************************************************)
(* The scenario A = malloc(a); B = malloc(b); free(A); C = malloc(a) on a  *)
(* fresh heap                                                              *)
(***************************************************************************)
ScenarioSizes ==
    {8 * k : k \in 1..MaxScenarioUnits} \cup {8 * k - 3 : k \in 1..MaxScenarioUnits}

NoScenario == [step |-> 0, a |-> 0, b |-> 0, A |-> NULL, B |-> NULL, C |-> NULL]

ScenarioIdle == scn = NoScenario

ScenarioStep(step) ==
    /\ scn.step = step
    /\ heapCalls' = heapCalls + 1
    /\ UNCHANGED <<pagingVars, seedVars>>

ScenarioAllocA ==
    /\ ScenarioStep(0)
    /\ \E a \in ScenarioSizes :
         /\ MallocCall(a)
         /\ scn' = [scn EXCEPT !.step = 1, !.a = a, !.A = heapCall'.ret]

ScenarioAllocB ==
    /\ ScenarioStep(1)
    /\ \E b \in ScenarioSizes :
         /\ MallocCall(b)
         /\ scn' = [scn EXCEPT !.step = 2, !.b = b, !.B = heapCall'.ret]

ScenarioFreeA ==
    /\ ScenarioStep(2)
    /\ scn.A # NULL
    /\ FreeCall(scn.A)
    /\ scn' = [scn EXCEPT !.step = 3]

ScenarioAllocAgain ==
    /\ ScenarioStep(3)
    /\ MallocCall(scn.a)
    /\ scn' = [scn EXCEPT !.step = 4, !.C = heapCall'.ret]

(***************************************************************************)
(* paging.cpp.  A paging state ps is the record of the globals.            *)
(***************************************************************************)
Pages == 0..(PageTableEntries * PageTableEntries - 1)
Frames == 0..(NumFrames - 1)
\* the recursive-mapping window: the pages of the last directory slot
WindowPages == (PageTableEntries * (PageTableEntries - 1))..(PageTableEntries * PageTableEntries - 1)

\* union Arch::Memory::Address
FrameIndex(addr) == addr \div ARCH_PAGE_SIZE
DirIndex(addr) == FrameIndex(addr) \div PageTableEntries
TableIndex(addr) == FrameIndex(addr) % PageTableEntries
PageOffset(addr) == addr % ARCH_PAGE_SIZE

\* #define PAGE_COUNT(s) ((s) / ARCH_PAGE_SIZE) + 1;
PAGE_COUNT(s) == (s \div ARCH_PAGE_SIZE) + 1

ZeroEntry == [present |-> 0, frame |-> 0]

\* Bitset::FindFirstRange(seq, false): first index of seq clear bits in a row
FindFirstRange(bits, seq) ==
    LET fits == {i \in Pages : \A k \in 0..(seq - 1) : (i + k) \in Pages /\ (i + k) \notin bits}
    IN  IF fits = {} THEN SIZE_MAX ELSE CHOOSE i \in fits : \A j \in fits : i <= j

findNextFreeVirtualAddress(ps, seq) == FindFirstRange(ps.mappedPages, seq)

\* PhysicalManager::findNextFreePhysicalAddress(): first clear bit
findNextFreePhysicalAddress(ps) ==
    LET clear == Frames \ ps.physical
    IN  IF clear = {} THEN SIZE_MAX ELSE CHOOSE f \in clear : \A g \in clear : f <= g

\* Mutex::Lock() once it is passed, and Mutex::Unlock()
Lock(ps) == [ps EXCEPT !.pagingLock = TRUE]
Unlock(ps) == [ps EXCEPT !.pagingLock = FALSE]

\* PANIC(): the fatal abort; control never comes back to the caller
PANIC(ps) == [ps |-> ps, out |-> "panic"]

\* the checks without the alignment test
mapKernelPageCheck_no_align(ps, vaddr, paddr) ==
    LET entry == ps.pageTables[DirIndex(vaddr)][TableIndex(vaddr)]
    IN  IF entry.present = 1
        THEN IF entry.frame = FrameIndex(paddr) THEN "return" ELSE "panic"
        ELSE "map"

\* the checks without the test of the present entry
mapKernelPageCheck_overwrite(ps, vaddr, paddr) ==
    IF PageOffset(vaddr) # 0 THEN "panic" ELSE "map"

\* mapKernelPage(), lines 150-169: "panic", "return" (already mapped the
\* same way) or "map"
mapKernelPageCheck(ps, vaddr, paddr) ==
    LET entry == ps.pageTables[DirIndex(vaddr)][TableIndex(vaddr)]
    IN  IF PageOffset(vaddr) # 0 THEN "panic"
        ELSE IF entry.present = 1
        THEN IF entry.frame = FrameIndex(paddr) THEN "return" ELSE "panic"
        ELSE "map"

\* the writes without mappedPages.Set
mapKernelPageWrite_no_bit(ps, vaddr, paddr) ==
    [ps EXCEPT !.pageTables[DirIndex(vaddr)][TableIndex(vaddr)] =
                   [present |-> 1, frame |-> FrameIndex(paddr)],
               !.physical = @ \cup {FrameIndex(paddr)}]

\* mapKernelPage(), lines 170-186: the entry, physical.setUsed, mappedPages.Set
mapKernelPageWrite(ps, vaddr, paddr) ==
    [ps EXCEPT !.pageTables[DirIndex(vaddr)][TableIndex(vaddr)] =
                   [present |-> 1, frame |-> FrameIndex(paddr)],
               !.physical = @ \cup {FrameIndex(paddr)},
               !.mappedPages = @ \cup {FrameIndex(vaddr)}]

\* result: [ps |-> paging state afterwards, out |-> "ok" or "panic"]
mapKernelPage(ps, vaddr, paddr) ==
    LET check == mapKernelPageCheck(ps, vaddr, paddr)
    IN  IF check = "panic" THEN PANIC(ps)
        ELSE IF check = "return" THEN [ps |-> ps, out |-> "ok"]
        ELSE [ps |-> mapKernelPageWrite(ps, vaddr, paddr), out |-> "ok"]

\* for (a = sect.base(); a.val < sect.end(); a.val += ARCH_PAGE_SIZE) mapKernelPage(a, a - delta)
RECURSIVE mapKernelRange(_, _, _, _)
mapKernelRange(ps, a, end, delta) ==
    IF a >= end THEN ps
    ELSE mapKernelRange(mapKernelPage(ps, a, a - delta).ps, a + ARCH_PAGE_SIZE, end, delta)

\* initDirectory(): all tables cleared, the bits of the recursive window set
initDirectory(phys) ==
    [pageTables |-> [d \in 0..(PageTableEntries - 1) |->
                        [t \in 0..(PageTableEntries - 1) |-> ZeroEntry]],
     mappedPages |-> WindowPages,
     physical |-> phys,
     pagingLock |-> FALSE,
     invalidated |-> {}]

\* the kernel image: virtual KERNEL_START, loaded right above the low memory
KERNEL_START == PageTableEntries * ARCH_PAGE_SIZE
KERNEL_END == KERNEL_START + KernelPages * ARCH_PAGE_SIZE
KERNEL_BASE == KERNEL_START - EarlyPages * ARCH_PAGE_SIZE

\* init(): initDirectory, mapEarlyMem, mapKernel
init(phys) ==
    mapKernelRange(
        mapKernelRange(initDirectory(phys), 0, EarlyPages * ARCH_PAGE_SIZE, 0),
        KERNEL_START, KERNEL_END, KERNEL_BASE)

\* newPage(), lines 241-249; result: [ps, ret, out]; out is "ret" or "panic"
RECURSIVE newPageLoop(_, _, _, _)
newPageLoop(ps, free_idx, i, end) ==
    IF i >= end
    THEN [ps |-> Unlock(ps), ret |-> free_idx * ARCH_PAGE_SIZE, out |-> "ret"]
    ELSE LET phys_page_idx == findNextFreePhysicalAddress(ps)
             r == mapKernelPage(ps, i * ARCH_PAGE_SIZE, phys_page_idx * ARCH_PAGE_SIZE)
         IN  IF phys_page_idx = SIZE_MAX THEN [ps |-> ps, ret |-> NULL, out |-> "ret"]
             ELSE IF r.out = "panic" THEN [ps |-> r.ps, ret |-> NULL, out |-> "panic"]
             ELSE newPageLoop(r.ps, free_idx, i + 1, end)

\* newPage() once Lock() has been passed
newPage(ps, size) ==
    LET locked == Lock(ps)
        page_count == PAGE_COUNT(size)
        free_idx == findNextFreeVirtualAddress(locked, page_count)
    IN  IF free_idx = SIZE_MAX THEN [ps |-> locked, ret |-> NULL, out |-> "ret"]
        ELSE newPageLoop(locked, free_idx, free_idx, free_idx + page_count)

\* one turn of the loop that leaves the bit of mappedPages set
freePageStep_keep_bit(ps, i) ==
    LET pde == i \div PageTableEntries
        pte == i % PageTableEntries
        frame == ps.pageTables[pde][pte].frame
    IN  [ps EXCEPT !.physical = @ \ {frame},
                   !.pageTables[pde][pte] = ZeroEntry]

\* freePage(), lines 258-264: one turn of the loop
freePageStep(ps, i) ==
    LET pde == i \div PageTableEntries
        pte == i % PageTableEntries
        frame == ps.pageTables[pde][pte].frame
    IN  [ps EXCEPT !.mappedPages = @ \ {i},
                   !.physical = @ \ {frame},
                   !.pageTables[pde][pte] = ZeroEntry]

\* Arch::Memory::pageInvalidate(page): the translation of the page that
\* holds the address is dropped from the TLB
pageInvalidate(ps, page) == [ps EXCEPT !.invalidated = @ \cup {FrameIndex(page)}]

\* freePage(), lines 257-267: the loop from index i on
RECURSIVE freePageLoop(_, _, _, _)
freePageLoop(ps, page, i, end) ==
    IF i >= end THEN ps
    ELSE freePageLoop(pageInvalidate(freePageStep(ps, i), page), page, i + 1, end)

\* freePage() once Lock() has been passed
freePage(ps, page, size) ==
    LET locked == Lock(ps)
        page_count == PAGE_COUNT(size)
        done == freePageLoop(locked, page, TableIndex(page), TableIndex(page) + page_count)
    IN  Unlock(done)

isPresent(ps, addr) == FrameIndex(addr) \in ps.mappedPages

(***************************************************************************)
(* Paging actions: one flow of execution issues the calls                  *)
(***************************************************************************)
Callers == 1..NumCallers
NoLocals == [vaddr |-> 0, paddr |-> 0, size |-> 0, free_idx |-> 0, i |-> 0,
             back |-> "idle"]

PagingState == [pageTables |-> pageTables, mappedPages |-> mappedPages,
                physical |-> physical, pagingLock |-> pagingLock,
                invalidated |-> invalidated]

SetPaging(ps) ==
    /\ pageTables' = ps.pageTables
    /\ mappedPages' = ps.mappedPages
    /\ physical' = ps.physical
    /\ pagingLock' = ps.pagingLock
    /\ invalidated' = ps.invalidated

\* addresses tried: the first page of the low memory, of the kernel image and
\* of the recursive window, the page after the low memory and the page after
\* the kernel image, two unaligned addresses, and every frame
MapVAddrs == {0, EarlyPages * ARCH_PAGE_SIZE, KERNEL_START, KERNEL_END,
              PageTableEntries * (PageTableEntries - 1) * ARCH_PAGE_SIZE,
              EarlyPages * ARCH_PAGE_SIZE + 1, KERNEL_END - 1}
MapPAddrs == {f * ARCH_PAGE_SIZE : f \in Frames} \cup {ARCH_PAGE_SIZE + 1}
PageSizes == {k * ARCH_PAGE_SIZE + o : k \in 0..MaxNewPages, o \in {0, 1}}

\* no paging call has been made
PagingIdle ==
    /\ cpu = "running"
    /\ allocs = {}
    /\ pagingCall = [op |-> "init", a1 |-> 0, a2 |-> 0, ret |-> NULL, again |-> FALSE]
    /\ pagingCalls = 0
    /\ mapCalls = 0
    /\ pc = [c \in Callers |-> "idle"]
    /\ loc = [c \in Callers |-> NoLocals]

PagingInit ==
    /\ LET ps == init({})
       IN  /\ pageTables = ps.pageTables
           /\ mappedPages = ps.mappedPages
           /\ physical = ps.physical
           /\ pagingLock = ps.pagingLock
           /\ invalidated = ps.invalidated
    /\ PagingIdle

PagingCallGuard ==
    /\ cpu = "running"
    /\ pagingCalls < MaxPagingCalls
    /\ pagingCalls' = pagingCalls + 1
    /\ UNCHANGED <<mapCalls, pc, loc>>

MapKernelPage ==
    /\ cpu = "running"
    /\ pagingCalls < MaxPagingCalls
    /\ mapCalls < MaxMapCalls
    /\ pagingCalls' = pagingCalls + 1
    /\ mapCalls' = mapCalls + 1
    /\ UNCHANGED <<pc, loc>>
    /\ \E vaddr \in MapVAddrs, paddr \in MapPAddrs :
         LET r == mapKernelPage(PagingState, vaddr, paddr)
         IN  /\ SetPaging(r.ps)
             /\ cpu' = IF r.out = "panic" THEN "panic" ELSE "running"
             /\ pagingCall' = [op |-> "mapKernelPage", a1 |-> vaddr, a2 |-> paddr,
                               ret |-> NULL,
                               again |-> /\ pagingCall.op = "mapKernelPage"
                                         /\ pagingCall.a1 = vaddr
                                         /\ pagingCall.a2 = paddr]
    /\ UNCHANGED allocs
    /\ UNCHANGED <<heapVars, scenarioVars, seedVars>>

NewPage ==
    /\ PagingCallGuard
    /\ ~pagingLock
    /\ \E size \in PageSizes :
         LET r == newPage(PagingState, size)
         IN  /\ SetPaging(r.ps)
             /\ cpu' = IF r.out = "panic" THEN "panic" ELSE "running"
             /\ allocs' = IF r.out = "ret" /\ r.ret # NULL
                          THEN allocs \cup {<<r.ret, size>>} ELSE allocs
             /\ pagingCall' = [op |-> "newPage", a1 |-> size, a2 |-> 0, ret |-> r.ret,
                               again |-> FALSE]
    /\ UNCHANGED <<heapVars, scenarioVars, seedVars>>

FreePage ==
    /\ PagingCallGuard
    /\ ~pagingLock
    /\ \E a \in allocs :
         /\ SetPaging(freePage([PagingState EXCEPT !.invalidated = {}], a[1], a[2]))
         /\ allocs' = allocs \ {a}
         /\ pagingCall' = [op |-> "freePage", a1 |-> a[1], a2 |-> a[2], ret |-> NULL,
                           again |-> FALSE]
    /\ cpu' = "running"
    /\ UNCHANGED <<heapVars, scenarioVars, seedVars>>

\* pagingLock.Lock() of newPage or freePage while the lock is held: the one
\* flow of execution spins in Lock() and the call never returns
LockSpin ==
    /\ PagingCallGuard
    /\ pagingLock
    /\ \E op \in {"newPage", "freePage"} :
         pagingCall' = [op |-> op, a1 |-> 0, a2 |-> 0, ret |-> NULL, again |-> FALSE]
    /\ cpu' = "spinning"
    /\ UNCHANGED <<pageTables, mappedPages, physical, pagingLock, invalidated, allocs>>
    /\ UNCHANGED <<heapVars, scenarioVars, seedVars>>

(***************************************************************************)
(* Boot: init(map) seeds the frame bitmap from the boot memory map and     *)
(* then builds the page tables.  A section is a record of the map.         *)
(***************************************************************************)
SectionTypes == {"Available", "Reserved", "BadRam"}

Sections ==
    [base : {f * ARCH_PAGE_SIZE : f \in 0..(MaxRecordFrame - 1)} \cup {ARCH_PAGE_SIZE \div 2},
     size : {ARCH_PAGE_SIZE, ARCH_PAGE_SIZE + ARCH_PAGE_SIZE \div 2},
     type : SectionTypes,
     initialized : BOOLEAN]

BootMaps == UNION {[1..n -> Sections] : n \in 0..MaxRecords}

\* the frames that overlap the bytes base .. base + size - 1 of a section
SectionFrames(section) ==
    {f \in Frames : /\ f * ARCH_PAGE_SIZE < section.base + section.size
                    /\ (f + 1) * ARCH_PAGE_SIZE > section.base}

\* PhysicalManager::setUsed(section), PhysicalManager::setFree(section)
setUsed(phys, section) == phys \cup SectionFrames(section)
setFree(phys, section) == phys \ SectionFrames(section)

\* initPhysical(), lines 86-101, from record i on (freeBytes and
\* reservedBytes are only printed)
RECURSIVE initPhysical(_, _, _)
initPhysical(phys, map, i) ==
    IF i > Len(map) THEN phys
    ELSE LET section == map[i]
             seeded == IF section.initialized
                       THEN IF section.type = "Available"
                            THEN setFree(phys, section)
                            ELSE setUsed(phys, section)
                       ELSE phys
         IN  initPhysical(seeded, map, i + 1)

\* init() has run on an empty memory map
SeedIdle ==
    /\ bootMap = <<>>
    /\ bootStage = "paging"

\* before init(map): the tables and bitmaps are zeroed static storage
SeedInit ==
    /\ bootMap \in BootMaps
    /\ bootStage = "boot"
    /\ pageTables = [d \in 0..(PageTableEntries - 1) |->
                        [t \in 0..(PageTableEntries - 1) |-> ZeroEntry]]
    /\ mappedPages = {}
    /\ physical = {}
    /\ pagingLock = FALSE
    /\ invalidated = {}
    /\ PagingIdle

\* init(), line 63
InitPhysical ==
    /\ bootStage = "boot"
    /\ physical' = initPhysical(physical, bootMap, 1)
    /\ bootStage' = "seeded"
    /\ UNCHANGED <<pageTables, mappedPages, pagingLock, invalidated, cpu, allocs, pagingCall,
                   pagingCalls, mapCalls, pc, loc>>
    /\ UNCHANGED <<heapVars, scenarioVars, bootMap>>

\* init(), lines 65-69
InitPaging ==
    /\ bootStage = "seeded"
    /\ SetPaging(init(physical))
    /\ bootStage' = "paging"
    /\ UNCHANGED <<cpu, allocs, pagingCall, pagingCalls, mapCalls, pc, loc>>
    /\ UNCHANGED <<heapVars, scenarioVars, bootMap>>

(***************************************************************************)
(* Paging actions when several callers interleave.  A caller is between    *)
(* calls ("idle"), waiting in Lock() ("np_lock", "fp_lock"), in the loop   *)
(* of newPage or freePage ("np_loop", "fp_loop"), or in mapKernelPage:     *)
(* at its checks ("mk_check") or at its writes ("mk_write").               *)
(***************************************************************************)
Goto(c, label, locals) ==
    /\ pc' = [pc EXCEPT ![c] = label]
    /\ loc' = [loc EXCEPT ![c] = locals]

CallerGuard(c, label) ==
    /\ cpu = "running"
    /\ pc[c] = label
    /\ UNCHANGED <<heapVars, pagingCall, scenarioVars, seedVars>>

\* a caller enters mapKernelPage(vaddr, paddr), newPage(size) or freePage(page, size)
Call(c) ==
    /\ CallerGuard(c, "idle")
    /\ pagingCalls < MaxInterleavedCalls
    /\ pagingCalls' = pagingCalls + 1
    /\ \/ /\ mapCalls < MaxMapCalls
          /\ mapCalls' = mapCalls + 1
          /\ \E vaddr \in MapVAddrs, paddr \in MapPAddrs :
               Goto(c, "mk_check", [NoLocals EXCEPT !.vaddr = vaddr, !.paddr = paddr])
          /\ UNCHANGED allocs
       \/ /\ \E size \in PageSizes :
               Goto(c, "np_lock", [NoLocals EXCEPT !.size = size])
          /\ UNCHANGED <<mapCalls, allocs>>
       \/ /\ \E a \in allocs :
               /\ Goto(c, "fp_lock", [NoLocals EXCEPT !.vaddr = a[1], !.size = a[2]])
               /\ allocs' = allocs \ {a}
          /\ UNCHANGED mapCalls
    /\ UNCHANGED <<pageTables, mappedPages, physical, pagingLock, invalidated, cpu>>

\* newPage(), lines 236-240
NpLock(c) ==
    /\ CallerGuard(c, "np_lock")
    /\ ~pagingLock
    /\ LET locked == Lock(PagingState)
           free_idx == findNextFreeVirtualAddress(locked, PAGE_COUNT(loc[c].size))
       IN  /\ SetPaging(locked)
           /\ IF free_idx = SIZE_MAX
              THEN Goto(c, "idle", NoLocals)
              ELSE Goto(c, "np_loop", [loc[c] EXCEPT !.free_idx = free_idx, !.i = free_idx])
    /\ UNCHANGED <<cpu, allocs, pagingCalls, mapCalls>>

\* newPage(), lines 241-249: one turn of the loop up to the call of
\* mapKernelPage, or the end of the loop
NpLoop(c) ==
    /\ CallerGuard(c, "np_loop")
    /\ LET l == loc[c]
           phys_page_idx == findNextFreePhysicalAddress(PagingState)
       IN  IF l.i >= l.free_idx + PAGE_COUNT(l.size)
           THEN /\ SetPaging(Unlock(PagingState))
                /\ allocs' = IF l.free_idx * ARCH_PAGE_SIZE # NULL
                             THEN allocs \cup {<<l.free_idx * ARCH_PAGE_SIZE, l.size>>}
                             ELSE allocs
                /\ Goto(c, "idle", NoLocals)
           ELSE /\ IF phys_page_idx = SIZE_MAX
                   THEN Goto(c, "idle", NoLocals)
                   ELSE Goto(c, "mk_check",
                             [l EXCEPT !.vaddr = l.i * ARCH_PAGE_SIZE,
                                       !.paddr = phys_page_idx * ARCH_PAGE_SIZE,
                                       !.i = l.i + 1,
                                       !.back = "np_loop"])
                /\ UNCHANGED <<pageTables, mappedPages, physical, pagingLock, invalidated, allocs>>
    /\ UNCHANGED <<cpu, pagingCalls, mapCalls>>

\* mapKernelPage(), lines 150-169
MkCheck(c) ==
    /\ CallerGuard(c, "mk_check")
    /\ LET check == mapKernelPageCheck(PagingState, loc[c].vaddr, loc[c].paddr)
       IN  /\ cpu' = IF check = "panic" THEN "panic" ELSE "running"
           /\ IF check = "map" THEN Goto(c, "mk_write", loc[c])
              ELSE IF check = "return" THEN Goto(c, loc[c].back, loc[c])
              ELSE UNCHANGED <<pc, loc>>
    /\ UNCHANGED <<pageTables, mappedPages, physical, pagingLock, invalidated, allocs,
                   pagingCalls, mapCalls>>

\* mapKernelPage(), lines 170-186
MkWrite(c) ==
    /\ CallerGuard(c, "mk_write")
    /\ SetPaging(mapKernelPageWrite(PagingState, loc[c].vaddr, loc[c].paddr))
    /\ Goto(c, loc[c].back, loc[c])
    /\ UNCHANGED <<cpu, allocs, pagingCalls, mapCalls>>

\* freePage(), lines 254-256
FpLock(c) ==
    /\ CallerGuard(c, "fp_lock")
    /\ ~pagingLock
    /\ SetPaging(Lock([PagingState EXCEPT !.invalidated = {}]))
    /\ Goto(c, "fp_loop", [loc[c] EXCEPT !.i = TableIndex(loc[c].vaddr)])
    /\ UNCHANGED <<cpu, allocs, pagingCalls, mapCalls>>

\* freePage(), lines 257-268: one turn of the loop, or the end of the loop
FpLoop(c) ==
    /\ CallerGuard(c, "fp_loop")
    /\ LET l == loc[c]
       IN  IF l.i >= TableIndex(l.vaddr) + PAGE_COUNT(l.size)
           THEN /\ SetPaging(Unlock(PagingState))
                /\ Goto(c, "idle", NoLocals)
           ELSE /\ SetPaging(pageInvalidate(freePageStep(PagingState, l.i), l.vaddr))
                /\ Goto(c, "fp_loop", [l EXCEPT !.i = l.i + 1])
    /\ UNCHANGED <<cpu, allocs, pagingCalls, mapCalls>>

Init == HeapInit /\ PagingInit /\ ScenarioIdle /\ SeedIdle

Next == Malloc \/ Free

Spec == Init /\ [][Next]_vars

PagingNext == MapKernelPage \/ NewPage \/ FreePage \/ LockSpin

PagingSpec == Init /\ [][PagingNext]_vars

InterleavedNext ==
    \E c \in Callers :
        Call(c) \/ NpLock(c) \/ NpLoop(c) \/ MkCheck(c) \/ MkWrite(c)
            \/ FpLock(c) \/ FpLoop(c)

InterleavedSpec == Init /\ [][InterleavedNext]_vars

ScenarioInit == HeapInitOf(ScenarioHeapSize) /\ PagingInit /\ ScenarioIdle /\ SeedIdle

ScenarioNext == ScenarioAllocA \/ ScenarioAllocB \/ ScenarioFreeA \/ ScenarioAllocAgain

ScenarioSpec == ScenarioInit /\ [][ScenarioNext]_vars

BootInit == HeapInit /\ ScenarioIdle /\ SeedInit

BootNext == InitPhysical \/ InitPaging

BootSpec == BootInit /\ [][BootNext]_vars

(***************************************************************************)
(* Properties of the heap                                                  *)
(***************************************************************************)
AllCount == Cardinality(DOMAIN chunks)

UnusedChunks == {c \in DOMAIN chunks : chunks[c].used = 0}

RECURSIVE SumSizes(_, _)
SumSizes(m, S) ==
    IF S = {} THEN 0
    ELSE LET c == CHOOSE x \in S : TRUE
         IN  px_memory_chunk_size(m, c) + SumSizes(m, S \ {c})

\* payload bytes of all unused chunks
TotalFreeBytes == SumSizes(chunks, UnusedChunks)

\* C1: between calls, no two chunks that are neighbours in the `all` list
\* are both unused.
C1_NoAdjacentFree ==
    \A c \in DOMAIN chunks :
        ~(chunks[c].used = 0 /\ chunks[chunks[c].all.next].used = 0)

\* a free() has merged the freed chunk into its unused predecessor, and an
\* unused chunk with used neighbours is what is left
C1_Witness ==
    /\ heapCall.op = "free"
    /\ (heapCall.arg - HEADER_SIZE) \notin DOMAIN chunks
    /\ heapCall.pre_count - AllCount = 2

\* C2: p = malloc(n) followed immediately by free(p) restores mem_free and
\* the number of chunks of the `all` list, split or not.
C2_RoundTrip ==
    [][(/\ heapCall.op = "malloc"
        /\ heapCall.ret # NULL
        /\ heapCall'.op = "free"
        /\ heapCall'.arg = heapCall.ret)
       => (/\ mem_free' = heapCall.pre_free
           /\ Cardinality(DOMAIN chunks') = heapCall.pre_count)]_vars

\* C9: a malloc(n) with n larger than the free bytes of the heap, n anywhere
\* in the size_t range, returns NULL and changes nothing.
C9_TooLargeIsNull ==
    [][(/\ heapCall'.op = "malloc"
        /\ heapCalls' = heapCalls + 1
        /\ heapCall'.arg > TotalFreeBytes)
       => (/\ heapCall'.ret = NULL
           /\ UNCHANGED <<chunks, free_chunk, mem_free, mem_used, mem_meta>>)]_vars

\* C10: malloc(n) with n < MIN_SIZE on a heap that has a free chunk succeeds
\* and hands out a chunk whose derived size is at least MIN_SIZE.
C10_SmallRequest ==
    [][(/\ heapCall'.op = "malloc"
        /\ heapCalls' = heapCalls + 1
        /\ heapCall'.arg < MIN_SIZE
        /\ UnusedChunks # {})
       => (/\ heapCall'.ret # NULL
           /\ (heapCall'.ret - HEADER_SIZE) \in DOMAIN chunks'
           /\ chunks'[heapCall'.ret - HEADER_SIZE].used = 1
           /\ px_memory_chunk_size(chunks', heapCall'.ret - HEADER_SIZE) >= MIN_SIZE)]_vars

\* malloc(0) has handed out a chunk
C10_Witness ==
    /\ heapCall.op = "malloc"
    /\ heapCall.arg = 0
    /\ heapCall.ret # NULL
    /\ chunks[heapCall.ret - HEADER_SIZE].used = 1

\* the chunks of the `all` list in list order, from c on, at most n of them
RECURSIVE AllFrom(_, _, _)
AllFrom(m, c, n) ==
    IF n = 0 \/ c \notin DOMAIN m THEN <<>>
    ELSE <<c>> \o (IF m[c].all.next = first THEN <<>> ELSE AllFrom(m, m[c].all.next, n - 1))

AllList == AllFrom(chunks, first, AllCount)

InAllList(c) == \E i \in 1..Len(AllList) : AllList[i] = c

\* C11: on a heap over a 4096-byte region, A = malloc(64), B = malloc(128),
\* free(A): the free merges nothing (A stays a 64-byte unused chunk, the
\* high sentinel stays in the `all` list and used), and the next malloc(64)
\* returns the address of A.
C11_ScenarioReusesA ==
    (scn.a = 64 /\ scn.b = 128) =>
        /\ scn.step = 3 =>
              /\ AllCount = heapCall.pre_count
              /\ (scn.A - HEADER_SIZE) \in DOMAIN chunks
              /\ chunks[scn.A - HEADER_SIZE].used = 0
              /\ px_memory_chunk_size(chunks, scn.A - HEADER_SIZE) = 64
              /\ InAllList(last)
              /\ chunks[last].used = 1
        /\ scn.step = 4 =>
              /\ scn.A # NULL
              /\ scn.C = scn.A
              /\ chunks[scn.A - HEADER_SIZE].used = 1
              /\ InAllList(last)
              /\ chunks[last].used = 1

\* the scenario has run to its end with the sizes 64 and 128, and B is
\* still allocated right above the reused chunk
C11_Witness ==
    /\ scn.step = 4
    /\ scn.a = 64
    /\ scn.b = 128
    /\ scn.C # NULL
    /\ scn.B = scn.A + 64 + HEADER_SIZE
    /\ chunks[scn.B - HEADER_SIZE].used = 1


\* the chunks linked in the ring of `free` members that starts at c
RECURSIVE FreeFrom(_, _, _, _)
FreeFrom(m, head, c, n) ==
    IF n = 0 \/ c \notin DOMAIN m THEN {c}
    ELSE {c} \cup (IF m[c].free.next = head THEN {} ELSE FreeFrom(m, head, m[c].free.next, n - 1))

\* the chunks linked in the bucket of head fc[n] in memory m
BucketChunksOf(m, fc, n) ==
    IF fc[n] = NULL THEN {}
    ELSE FreeFrom(m, fc[n], fc[n], Cardinality(DOMAIN m))

\* the chunks linked in bucket n
BucketChunks(n) == BucketChunksOf(chunks, free_chunk, n)

BucketsOf(c) == {n \in 0..(NUM_SIZES - 1) : c \in BucketChunks(n)}

\* floor(log2(x)) for x >= 1
FloorLog2(x) == CHOOSE k \in 0..WordBits : 2 ^ k <= x /\ x < 2 ^ (k + 1)

\* the smallest k with 2^k >= x
CeilLog2(x) == CHOOSE k \in 0..WordBits : 2 ^ k >= x /\ (k = 0 \/ 2 ^ (k - 1) < x)

\* C12: between calls a chunk whose used flag is 0 is linked in exactly one
\* bucket, the one with index floor(log2(derived size)), and a chunk whose
\* used flag is 1 is linked in no bucket; a bucket links nothing else.
C12_BucketMembership ==
    /\ \A c \in DOMAIN chunks :
          IF chunks[c].used = 0
          THEN BucketsOf(c) = {FloorLog2(px_memory_chunk_size(chunks, c))}
          ELSE BucketsOf(c) = {}
    /\ \A n \in 0..(NUM_SIZES - 1) : BucketChunks(n) \subseteq DOMAIN chunks

\* a free() has left two unused chunks in two different buckets next to a
\* chunk that is still handed out
C12_Witness ==
    /\ heapCall.op = "free"
    /\ Allocated # {}
    /\ \E c1, c2 \in UnusedChunks :
          /\ c1 # c2
          /\ BucketsOf(c1) # BucketsOf(c2)
          /\ BucketsOf(c1) # {}
          /\ BucketsOf(c2) # {}

\* C13: between calls the `all` list is circular and strictly ascending by
\* address from first to last, holds every chunk, and the two sentinels are
\* its lowest and highest members and are marked used; so no free has
\* unlinked or merged a sentinel.
C13_AllListOrdered ==
    /\ first \in DOMAIN chunks
    /\ last \in DOMAIN chunks
    /\ chunks[first].used = 1
    /\ chunks[last].used = 1
    /\ Len(AllList) = AllCount
    /\ AllList[1] = first
    /\ AllList[Len(AllList)] = last
    /\ chunks[last].all.next = first
    /\ chunks[first].all.prev = last
    /\ \A i \in 1..(Len(AllList) - 1) :
          /\ AllList[i] < AllList[i + 1]
          /\ chunks[AllList[i + 1]].all.prev = AllList[i]

\* a free() has released the chunk that lies between the two sentinels
C13_Witness ==
    /\ heapCall.op = "free"
    /\ (heapCall.arg - HEADER_SIZE) \in DOMAIN chunks
    /\ chunks[heapCall.arg - HEADER_SIZE].used = 0
    /\ chunks[heapCall.arg - HEADER_SIZE].all.prev = first
    /\ chunks[heapCall.arg - HEADER_SIZE].all.next = last
    /\ AllCount = heapCall.pre_count

\* C14: between calls every chunk between the two sentinels has a derived
\* size that is a multiple of ALIGN and at least MIN_SIZE.
C14_SizesAligned ==
    \A c \in DOMAIN chunks \ {first, last} :
        /\ px_memory_chunk_size(chunks, c) % ALIGN = 0
        /\ px_memory_chunk_size(chunks, c) >= MIN_SIZE

\* a malloc() of a request that is not a multiple of ALIGN has split a
\* chunk, and a chunk of exactly MIN_SIZE bytes exists
C14_Witness ==
    /\ heapCall.op = "malloc"
    /\ heapCall.ret # NULL
    /\ heapCall.arg % ALIGN # 0
    /\ AllCount = heapCall.pre_count + 1
    /\ \E c \in DOMAIN chunks \ {first, last} : px_memory_chunk_size(chunks, c) = MIN_SIZE

\* C15: between calls mem_used is the sum of the derived sizes of the
\* chunks handed out (used, not a sentinel), whether they were split off
\* or handed out whole.
C15_UsedCounterExact ==
    mem_used = SumSizes(chunks, {c \in DOMAIN chunks :
                                    chunks[c].used = 1 /\ c # first /\ c # last})

\* C20: malloc(n) returns NULL exactly when the starting class of the
\* rounded size s (the smallest k with 2^k >= s) is >= NUM_SIZES or every
\* bucket from that class up is empty; otherwise it hands out the head of
\* the lowest non-empty bucket at or above that class, whatever the buckets
\* below hold.
C20_StartingClass ==
    [][(heapCall'.op = "malloc" /\ heapCalls' = heapCalls + 1) =>
         LET s == RoundRequest(heapCall'.arg)
             k0 == CeilLog2(s)
             cand == {n \in k0..(NUM_SIZES - 1) : free_chunk[n] # NULL}
             n1 == CHOOSE n \in cand : \A j \in cand : n <= j
         IN  /\ (heapCall'.ret = NULL) <=> (k0 >= NUM_SIZES \/ cand = {})
             /\ (heapCall'.ret # NULL) =>
                   /\ heapCall'.ret = free_chunk[n1] + HEADER_SIZE
                   /\ chunks[free_chunk[n1]].used = 0
                   /\ chunks'[free_chunk[n1]].used = 1]_vars

\* a malloc() has returned NULL although a bucket below the starting class
\* holds a chunk of at least the rounded size
C20_Witness ==
    /\ heapCall.op = "malloc"
    /\ heapCall.ret = NULL
    /\ \E c \in UnusedChunks :
          /\ px_memory_chunk_size(chunks, c) >= RoundRequest(heapCall.arg)
          /\ BucketsOf(c) # {}
          /\ \A n \in BucketsOf(c) : n < CeilLog2(RoundRequest(heapCall.arg))


\* C21: a successful malloc splits the popped chunk exactly when its derived
\* size is at least the rounded request plus sizeof(px_heap_chunk_t).  After
\* a split the chunk handed out has the rounded request as derived size and
\* its `all` successor is the remainder, unused and linked in the bucket of
\* its own size; without a split the whole chunk is handed out and the
\* `all` links are unchanged.
C21_SplitRule ==
    [][(heapCall'.op = "malloc" /\ heapCalls' = heapCalls + 1 /\ heapCall'.ret # NULL) =>
         LET s == RoundRequest(heapCall'.arg)
             c == heapCall'.ret - HEADER_SIZE
             size2 == px_memory_chunk_size(chunks, c)
             rest == chunks'[c].all.next
             didSplit == DOMAIN chunks' # DOMAIN chunks
         IN  /\ didSplit <=> (size2 >= s + SIZEOF_CHUNK)
             /\ didSplit =>
                   /\ DOMAIN chunks' = DOMAIN chunks \cup {rest}
                   /\ rest = c + HEADER_SIZE + s
                   /\ px_memory_chunk_size(chunks', c) = s
                   /\ chunks'[rest].used = 0
                   /\ chunks'[rest].all.prev = c
                   /\ chunks'[rest].all.next = chunks[c].all.next
                   /\ px_memory_chunk_size(chunks', rest) = size2 - s - HEADER_SIZE
                   /\ rest \in BucketChunksOf(chunks', free_chunk',
                                               FloorLog2(size2 - s - HEADER_SIZE))
             /\ ~didSplit =>
                   /\ px_memory_chunk_size(chunks', c) = size2
                   /\ \A a \in DOMAIN chunks : chunks'[a].all = chunks[a].all]_vars

\* a malloc has split a chunk that was just large enough: the remainder
\* that follows the chunk handed out has MIN_SIZE bytes
C21_Witness ==
    /\ heapCall.op = "malloc"
    /\ heapCall.ret # NULL
    /\ AllCount = heapCall.pre_count + 1
    /\ chunks[chunks[heapCall.ret - HEADER_SIZE].all.next].used = 0
    /\ px_memory_chunk_size(chunks, chunks[heapCall.ret - HEADER_SIZE].all.next) = MIN_SIZE
    /\ px_memory_chunk_size(chunks, heapCall.ret - HEADER_SIZE) = RoundRequest(heapCall.arg)

\* C25: the chunk handed out by malloc(n) has a derived size of at least n
\* rounded up to ALIGN and at least MIN_SIZE, so the payload [p, p + n)
\* ends at or before the next chunk and lies between the two sentinels.
C25_PayloadFits ==
    [][(heapCall'.op = "malloc" /\ heapCalls' = heapCalls + 1 /\ heapCall'.ret # NULL) =>
         LET n == heapCall'.arg
             p == heapCall'.ret
             c == p - HEADER_SIZE
             up == ((n + ALIGN - 1) \div ALIGN) * ALIGN
         IN  /\ px_memory_chunk_size(chunks', c) >= up
             /\ px_memory_chunk_size(chunks', c) >= MIN_SIZE
             /\ p + n <= chunks'[c].all.next
             /\ first < c
             /\ p + n <= last']_vars

\* the heap is in the shape px_heap_init leaves: the low sentinel, one unused
\* chunk of the initial size, the high sentinel, and one non-empty bucket
PostInitShape ==
    LET second == first + SIZEOF_CHUNK
    IN  /\ DOMAIN chunks = {first, second, last}
        /\ AllList = <<first, second, last>>
        /\ chunks[second].used = 0
        /\ px_memory_chunk_size(chunks, second) = last - second - HEADER_SIZE
        /\ Cardinality({n \in 0..(NUM_SIZES - 1) : free_chunk[n] # NULL}) = 1
        /\ BucketsOf(second) # {}

\* C26: whenever every pointer that malloc returned has been freed, in
\* whatever order, the heap is back in its post-init shape.
C26_AllFreedIsPostInit == (Allocated = {}) => PostInitShape

\* the last of the pointers has been freed after a pointer below it, and
\* this free has merged the chunk with both of its neighbours
C26_Witness ==
    /\ heapCall.op = "free"
    /\ Allocated = {}
    /\ heapCall.pre_count - AllCount = 2
    /\ heapCalls >= 4

\* the rounded request is a power of two
IsPowerOfTwo(x) == \E k \in 0..WordBits : x = 2 ^ k

EntryOf(addr) == pageTables[DirIndex(addr)][TableIndex(addr)]

\* the last step was a direct call mapKernelPage(pagingCall'.a1, pagingCall'.a2)
MapKernelPageCalled ==
    /\ pagingCall'.op = "mapKernelPage"
    /\ mapCalls' = mapCalls + 1

\* the last step was a call of newPage that came back to its caller
NewPageReturned ==
    /\ pagingCall'.op = "newPage"
    /\ pagingCalls' = pagingCalls + 1
    /\ cpu' = "running"

\* C3: a newPage that returns NULL leaves the page-table entries, the virtual
\* bitmap and the physical frame bitmap as they were before the call.
C3_NullLeavesNoMapping ==
    [][(NewPageReturned /\ pagingCall'.ret = NULL)
       => UNCHANGED <<pageTables, mappedPages, physical>>]_vars

\* C4: every return from newPage and freePage leaves the paging lock
\* released, and no call spins on the lock forever.
C4_LockReleasedOnReturn ==
    /\ cpu # "spinning"
    /\ (pagingCall.op \in {"newPage", "freePage"} /\ cpu = "running") => ~pagingLock

\* a caller is between the first and the last write of its call: in the
\* loop of newPage or freePage, or at the writes of mapKernelPage
InMutation(c) ==
    \/ pc[c] \in {"np_loop", "fp_loop", "mk_write"}
    \/ pc[c] = "mk_check" /\ loc[c].back = "np_loop"

\* C5: no two callers are inside their page-table/bitmap mutations at the
\* same time.
C5_OneCallerAtATime ==
    \A c1, c2 \in Callers : c1 # c2 => ~(InMutation(c1) /\ InMutation(c2))

\* C6: after a mapKernelPage(vaddr, paddr) with an aligned vaddr that does not
\* abort, isPresent(vaddr) is true, and an immediately following call with
\* the same arguments does not abort and changes no entry and no bitmap.
C6_MapThenPresentAndIdempotent ==
    [][/\ (MapKernelPageCalled /\ cpu' = "running")
            => isPresent(PagingState', pagingCall'.a1)
       /\ (MapKernelPageCalled /\ pagingCall'.again /\ PageOffset(pagingCall'.a1) = 0)
            => (cpu' = "running" /\ UNCHANGED <<pageTables, mappedPages, physical>>)]_vars

\* the page after the low memory, unmapped after init(), has been mapped by a first
\* call and the same call has been made again
C6_Witness ==
    /\ pagingCall.op = "mapKernelPage"
    /\ pagingCall.again
    /\ pagingCalls = 2
    /\ pagingCall.a1 = EarlyPages * ARCH_PAGE_SIZE
    /\ cpu = "running"
    /\ isPresent(PagingState, pagingCall.a1)
    /\ EntryOf(pagingCall.a1) = [present |-> 1, frame |-> FrameIndex(pagingCall.a2)]

\* C7: mapKernelPage on a page whose entry is present with another frame
\* ends in the fatal abort and leaves the entry and both bitmaps alone.
C7_ConflictAborts ==
    [][(/\ MapKernelPageCalled
        /\ PageOffset(pagingCall'.a1) = 0
        /\ EntryOf(pagingCall'.a1).present = 1
        /\ EntryOf(pagingCall'.a1).frame # FrameIndex(pagingCall'.a2))
       => (cpu' = "panic" /\ UNCHANGED <<pageTables, mappedPages, physical>>)]_vars

\* a conflicting remap has aborted
C7_Witness ==
    /\ cpu = "panic"
    /\ pagingCall.op = "mapKernelPage"
    /\ PageOffset(pagingCall.a1) = 0
    /\ EntryOf(pagingCall.a1).present = 1
    /\ EntryOf(pagingCall.a1).frame # FrameIndex(pagingCall.a2)

\* C8: mapKernelPage with an unaligned vaddr ends in the fatal abort before
\* any entry or bitmap is written.
C8_UnalignedAborts ==
    [][(MapKernelPageCalled /\ PageOffset(pagingCall'.a1) # 0)
       => (cpu' = "panic" /\ UNCHANGED <<pageTables, mappedPages, physical>>)]_vars

\* an unaligned map of a page that is not mapped has aborted
C8_Witness ==
    /\ cpu = "panic"
    /\ pagingCall.op = "mapKernelPage"
    /\ PageOffset(pagingCall.a1) # 0
    /\ EntryOf(pagingCall.a1).present = 0

\* the last step was a call of freePage that came back to its caller
FreePageReturned ==
    /\ pagingCall'.op = "freePage"
    /\ pagingCalls' = pagingCalls + 1
    /\ cpu' = "running"

\* ceil(size / ARCH_PAGE_SIZE)
CeilPages(size) == (size + ARCH_PAGE_SIZE - 1) \div ARCH_PAGE_SIZE

EntryOfPage(p) == pageTables[p \div PageTableEntries][p % PageTableEntries]

\* C16: a successful newPage(size) maps exactly ceil(size / ARCH_PAGE_SIZE)
\* pages, so size / ARCH_PAGE_SIZE pages for a whole number of pages.
C16_PageCountIsCeil ==
    [][(NewPageReturned /\ pagingCall'.ret # NULL)
       => Cardinality(mappedPages' \ mappedPages) = CeilPages(pagingCall'.a1)]_vars

\* C17: freePage(a, size) on a result a of newPage(size) clears the bit,
\* zeroes the entry and frees the frame of each page that newPage(size)
\* mapped at a, and leaves the bit and the entry of every other page alone.
C17_FreePageFreesItsPages ==
    [][FreePageReturned =>
         LET its == {FrameIndex(pagingCall'.a1) + k :
                        k \in 0..(PAGE_COUNT(pagingCall'.a2) - 1)}
         IN  /\ \A p \in its :
                   /\ p \notin mappedPages'
                   /\ EntryOfPage(p)' = ZeroEntry
                   /\ EntryOfPage(p).frame \notin physical'
             /\ \A p \in Pages \ its :
                   /\ (p \in mappedPages') = (p \in mappedPages)
                   /\ EntryOfPage(p)' = EntryOfPage(p)]_vars

\* C18: between calls, for every page outside the recursive-mapping window
\* the bit of mappedPages is set if and only if the entry is present.
C18_BitIffPresent ==
    \A p \in Pages \ WindowPages : (p \in mappedPages) <=> (EntryOfPage(p).present = 1)

\* a newPage has run out of frames after it mapped a page of its run: the
\* page keeps its bit and its entry
C18_Witness ==
    /\ pagingCall.op = "newPage"
    /\ pagingCall.ret = NULL
    /\ cpu = "running"
    /\ pagingLock
    /\ Frames \subseteq physical
    /\ \E p \in Pages \ WindowPages :
          /\ p \in mappedPages
          /\ EntryOfPage(p).present = 1
          /\ EntryOfPage(p).frame = NumFrames - 1

\* C19: once initPhysical has run, every frame that overlaps an initialised
\* record whose type is not Available is marked used.
C19_NonAvailableIsUsed ==
    bootStage = "seeded" =>
        \A i \in 1..Len(bootMap) :
            (bootMap[i].initialized /\ bootMap[i].type # "Available")
                => SectionFrames(bootMap[i]) \subseteq physical

\* the pages that newPage(size) maps at the address a
PagesAt(a, size) == {FrameIndex(a) + k : k \in 0..(PAGE_COUNT(size) - 1)}

\* C22: a freePage(page, size) that covers more than one page passes the
\* address of every page it unmaps to the TLB invalidation.
C22_EachPageInvalidated ==
    [][(FreePageReturned /\ PAGE_COUNT(pagingCall'.a2) > 1) =>
         \A p \in Pages :
             (EntryOfPage(p).present = 1 /\ EntryOfPage(p)'.present = 0)
                 => p \in invalidated']_vars

\* C23: with newPage and freePage calls only, a successful newPage returns
\* pages that are disjoint from the pages of every result not yet freed,
\* and backs none of them with a frame that backs a page of such a result.
C23_NoOverlapWithOutstanding ==
    [][(NewPageReturned /\ pagingCall'.ret # NULL /\ mapCalls' = 0) =>
         LET new == PagesAt(pagingCall'.ret, pagingCall'.a1)
         IN  \A a \in allocs :
                 /\ new \cap PagesAt(a[1], a[2]) = {}
                 /\ \A p \in new, q \in PagesAt(a[1], a[2]) \ new :
                       ~(/\ EntryOfPage(p)'.present = 1
                         /\ EntryOfPage(q)'.present = 1
                         /\ EntryOfPage(p)'.frame = EntryOfPage(q)'.frame)]_vars

\* C24: between calls every frame whose index a present entry holds is
\* marked used in the frame bitmap.
C24_MappedFramesAreUsed ==
    \A p \in Pages : EntryOfPage(p).present = 1 => EntryOfPage(p).frame \in physical

====
